---- MODULE Spec2Model ----
(***************************************************************************)
(* loss_lens: a UDP loss probe.  src/src/main.rs holds both roles:          *)
(*   - the client (prober): a sender loop on the main thread and a         *)
(*     receiver thread that keeps the sliding bitmap window and writes one *)
(*     byte per retired slot to the stdin of a zstd child process;         *)
(*   - the server (responder): one loop with a per-client-id table.        *)
(* A u64 slot is modelled as the set of its set bit positions (0..63), so  *)
(* count_ones is the cardinality and `|= 1 << b` is the union with {b}.    *)
(* Datagrams are byte sequences; u32 fields are big-endian.                *)
(***************************************************************************)
EXTENDS Integers, Sequences, FiniteSets, TLC

\* ---------------------------------------------------------------- constants
CLIENT_TO_SERVER_PACKET_SIZE == 9
SERVER_TO_CLIENT_PACKET_SIZE == 9
BUF_SIZE == 9
SEQ_NUM_PACKET_CONST == 2
ACK_PACKET_CONST == 3
PACKETS_PER_SECOND == 67
LATE_WINDOW == PACKETS_PER_SECOND * 3
SLOT_SIZE == 64
\* let mut seq_offset = 1
InitialSeqOffsetZero == 1 - 1
INITIAL_SEQ_OFFSET == 1
\* for seq in 1u32..
FirstSeqZero == 1 - 1
FIRST_SEQ == 1
\* rx_map.len() > 1000, last_check.elapsed().as_secs() > 1, elapsed().as_secs() < 10
TABLE_SWEEP_LEN == 1000
SWEEP_PERIOD_SECS == 1
IDLE_SECS == 10

\* ------------------------------------------------------------------- bounds
\* an echo sequence number far ahead of the window
FarSeq == 400
\* probes the sender loop transmits before the model stops it
MaxSent == 200
\* datagrams in flight in each direction of the end-to-end pipeline
MaxInFlight == 1
\* probes the sender loop transmits in a run of the client's two threads
MaxLoop == 2
\* probes the responder handles in a run of the responder alone
MaxProbes == 3
\* seconds of responder wall clock
MaxClock == 10
MaxNetSent == 2
MaxNetServed == 3

VARIABLES
    \* client, shared between the threads (ClientSharedState)
    client_sent, done,
    \* client, main thread: the sender loop
    seq, mpc, main_result,
    \* client, receiver thread
    buf, n, time_slots, seq_offset, client_received, server_received, last_print,
    out, rv, rpc, thread_result, report,
    \* the zstd child: whether it has been waited for
    child_waited,
    \* server
    rx_map, last_check, srv_buf, clock, spc,
    \* network: datagrams in flight
    probes, echoes,
    \* the sequence number whose echo the end-to-end network loses (0: none)
    missing,
    \* history: how often an observation of a sequence number was counted
    credit,
    \* history, per client id: probes handled, and probes handled before the
    \* entry of the id was last removed by a sweep, and the last index echoed
    nprobes, base, echoed,
    \* history: whether a recv_from of the server has failed
    recv_failed

shared_vars == <<client_sent, done>>
sender_vars == <<seq, mpc, main_result>>
window_vars == <<buf, n, time_slots, seq_offset, client_received, server_received,
                 last_print, out, report, credit>>
thread_vars == <<rv, rpc, thread_result, child_waited>>
server_vars == <<rx_map, last_check, srv_buf, clock, spc, nprobes, base, echoed,
                 recv_failed>>
net_vars == <<probes, echoes, missing>>
vars == <<client_sent, done, seq, mpc, main_result, buf, n, time_slots, seq_offset,
          client_received, server_received, last_print, out, rv, rpc,
          thread_result, report, child_waited, rx_map, last_check, srv_buf,
          clock, spc, probes, echoes, credit, missing, nprobes, base, echoed,
          recv_failed>>

\* ------------------------------------------------------------ wire encoding
Min(a, b) == IF a < b THEN a ELSE b
Max(a, b) == IF a > b THEN a ELSE b

\* u32::to_be_bytes
to_be_bytes(x) ==
    << (x \div 16777216) % 256, (x \div 65536) % 256, (x \div 256) % 256, x % 256 >>

\* u32::from_be_bytes(b[lo..lo+4]) on the 1-based sequence b (lo is 0-based)
from_be_bytes(b, lo) ==
    b[lo + 1] * 16777216 + b[lo + 2] * 65536 + b[lo + 3] * 256 + b[lo + 4]

\* the sender's probe: [kind][sequence][client id]
ProbePacket(s, id) == <<SEQ_NUM_PACKET_CONST>> \o to_be_bytes(s) \o to_be_bytes(id)

\* an echo as the responder builds it: [kind][sequence][serverReceiptIndex]
AckPacket(s, i) == <<ACK_PACKET_CONST>> \o to_be_bytes(s) \o to_be_bytes(i)

\* socket.recv_from(&mut buf): the datagram is cut to the buffer; bytes past n stay
recv_n(d) == Min(Len(d), BUF_SIZE)
recv_into(b, d) == [i \in 1..BUF_SIZE |-> IF i <= recv_n(d) THEN d[i] ELSE b[i]]

ZeroBuf == [i \in 1..BUF_SIZE |-> 0]

\* a datagram shorter than either packet size
ShortDatagram == <<ACK_PACKET_CONST, 0, 0, 0, 1>>

\* ------------------------------------------------- receiver: sliding window
count_zeros(slot) == SLOT_SIZE - Cardinality(slot)
count_ones(slot) == Cardinality(slot)

\* The eviction loop.  w is the number of sink writes that still succeed; a
\* failing write_all leaves the loop by `?` after the pop and before the
\* offset moves.  flush() on a ChildStdin always returns Ok.
\* Evict with the offset stepping backwards (a sign slip)
RECURSIVE EvictRewind(_, _, _, _)
EvictRewind(slots, off, sink, w) ==
    IF Len(slots) * SLOT_SIZE > LATE_WINDOW
    THEN IF w = 0
         THEN [slots |-> Tail(slots), off |-> off, out |-> sink, ok |-> FALSE]
         ELSE EvictRewind(Tail(slots), off - SLOT_SIZE,
                          Append(sink, count_ones(Head(slots)) % 256), w - 1)
    ELSE [slots |-> slots, off |-> off, out |-> sink, ok |-> TRUE]

\* Evict with the offset advanced by 1 per retired slot instead of SLOT_SIZE
RECURSIVE EvictStepOne(_, _, _, _)
EvictStepOne(slots, off, sink, w) ==
    IF Len(slots) * SLOT_SIZE > LATE_WINDOW
    THEN IF w = 0
         THEN [slots |-> Tail(slots), off |-> off, out |-> sink, ok |-> FALSE]
         ELSE EvictStepOne(Tail(slots), off + 1,
                           Append(sink, count_ones(Head(slots)) % 256), w - 1)
    ELSE [slots |-> slots, off |-> off, out |-> sink, ok |-> TRUE]

RECURSIVE Evict(_, _, _, _)
Evict(slots, off, sink, w) ==
    IF Len(slots) * SLOT_SIZE > LATE_WINDOW
    THEN IF w = 0
         THEN [slots |-> Tail(slots), off |-> off, out |-> sink, ok |-> FALSE]
         ELSE Evict(Tail(slots), off + SLOT_SIZE,
                    Append(sink, count_ones(Head(slots)) % 256), w - 1)
    ELSE [slots |-> slots, off |-> off, out |-> sink, ok |-> TRUE]

\* make space for new sequence numbers
RECURSIVE Grow(_, _, _)
Grow(slots, off, s) ==
    IF s >= Len(slots) * SLOT_SIZE + off
    THEN Grow(Append(slots, {}), off, s)
    ELSE slots

\* whether the bit of idx is clear, and the window with it set
BitClear(slots, idx) == (idx % SLOT_SIZE) \notin slots[(idx \div SLOT_SIZE) + 1]
SetBitNext(slots, idx) ==
    [slots EXCEPT ![(idx \div SLOT_SIZE) + 1] = @ \cup {(idx + 1) % SLOT_SIZE}]
SetBit(slots, idx) ==
    [slots EXCEPT ![(idx \div SLOT_SIZE) + 1] = @ \cup {idx % SLOT_SIZE}]

\* Mark counting every echo, the bit already set or not
MarkAlwaysCount(slots, off, s) ==
    IF s >= off
    THEN LET g == Grow(slots, off, s)
             idx == s - off
         IN [slots |-> SetBit(g, idx), inc |-> 1]
    ELSE [slots |-> slots, inc |-> 0]

\* Mark counting an echo before the late-drop guard looks at it
MarkCountLate(slots, off, s) ==
    IF s >= off
    THEN LET g == Grow(slots, off, s)
             idx == s - off
         IN [slots |-> SetBit(g, idx), inc |-> IF BitClear(g, idx) THEN 1 ELSE 0]
    ELSE [slots |-> slots, inc |-> 1]

\* the late-drop guard, growth and mark of one echo: the window and the
\* increment of client_received
Mark(slots, off, s) ==
    IF s >= off
    THEN LET g == Grow(slots, off, s)
             idx == s - off
         IN [slots |-> SetBit(g, idx), inc |-> IF BitClear(g, idx) THEN 1 ELSE 0]
    ELSE [slots |-> slots, inc |-> 0]

\* the report trigger
ReportDueAtLeast(srv, lp) == srv - lp >= PACKETS_PER_SECOND /\ srv > 0

ReportDue(srv, lp) == srv - lp > PACKETS_PER_SECOND /\ srv > 0

NoReport == [sent |-> -1, srv |-> -1, rcv |-> -1]

\* ------------------------------------------------- receiver thread (client)
CreditOf(s) == IF s \in DOMAIN credit THEN credit[s] ELSE 0
AddCredit(s, inc) ==
    IF inc = 0 THEN credit
    ELSE [x \in DOMAIN credit \cup {s} |-> CreditOf(x) + (IF x = s THEN inc ELSE 0)]

\* main has returned: the process is gone and no thread steps any more
ProcessAlive == mpc # "exit"

\* while !done.load(SeqCst)
RxCheck ==
    /\ ProcessAlive /\ rpc = "check"
    /\ IF done THEN rpc' = "flush" /\ rv' = "ok"
               ELSE rpc' = "recv" /\ rv' = rv
    /\ UNCHANGED <<thread_result, child_waited>>
    /\ UNCHANGED <<shared_vars, sender_vars, window_vars, server_vars>>

\* recv_from: Err(WouldBlock) => continue
RxTimeout ==
    /\ ProcessAlive /\ rpc = "recv"
    /\ rpc' = "check"
    /\ UNCHANGED <<rv, thread_result, child_waited>>
    /\ UNCHANGED <<shared_vars, sender_vars, window_vars, server_vars>>

\* recv_from: any other error leaves the closure by `?`
RxError ==
    /\ ProcessAlive /\ rpc = "recv"
    /\ rpc' = "flush" /\ rv' = "err"
    /\ UNCHANGED <<thread_result, child_waited>>
    /\ UNCHANGED <<shared_vars, sender_vars, window_vars, server_vars>>

\* the accounting of one datagram that passed the length and kind guard
Observe(w) ==
    LET received_seq == from_be_bytes(buf', 1)
        srv == Max(from_be_bytes(buf', 5), server_received)
        ev == Evict(time_slots, seq_offset, out, w)
        mk == Mark(ev.slots, ev.off, received_seq)
    IN /\ server_received' = srv
       /\ out' = ev.out
       /\ seq_offset' = ev.off
       /\ IF ev.ok
          THEN /\ time_slots' = mk.slots
               /\ client_received' = client_received + mk.inc
               /\ credit' = AddCredit(received_seq, mk.inc)
               /\ IF ReportDue(srv, last_print)
                  THEN /\ last_print' = srv
                       /\ report' = [sent |-> client_sent, srv |-> srv,
                                     rcv |-> client_received + mk.inc]
                  ELSE UNCHANGED <<last_print, report>>
               /\ rpc' = "check" /\ rv' = rv
          ELSE /\ time_slots' = ev.slots
               /\ UNCHANGED <<client_received, credit, last_print, report>>
               /\ rpc' = "flush" /\ rv' = "err"

\* recv_from: Ok((n, _addr)) with datagram d
RxDatagram(d, w) ==
    /\ ProcessAlive /\ rpc = "recv"
    /\ buf' = recv_into(buf, d)
    /\ n' = recv_n(d)
    /\ IF n' = SERVER_TO_CLIENT_PACKET_SIZE /\ buf'[1] = ACK_PACKET_CONST
       THEN Observe(w)
       ELSE /\ rpc' = "check"
            /\ UNCHANGED <<time_slots, seq_offset, client_received, server_received,
                           last_print, out, report, credit, rv>>
    /\ UNCHANGED <<thread_result, child_waited>>
    /\ UNCHANGED <<shared_vars, sender_vars, server_vars>>

\* out.flush()?
RxFlush ==
    /\ ProcessAlive /\ rpc = "flush"
    /\ rpc' = "wait"
    /\ UNCHANGED <<rv, thread_result, child_waited>>
    /\ UNCHANGED <<shared_vars, sender_vars, window_vars, server_vars>>

\* dbg!(cmd.wait_with_output())?; rv
RxWait(ok) ==
    /\ ProcessAlive /\ rpc = "wait"
    /\ rpc' = "exit"
    /\ child_waited' = TRUE
    /\ thread_result' = IF ok THEN rv ELSE "err"
    /\ UNCHANGED rv
    /\ UNCHANGED <<shared_vars, sender_vars, window_vars, server_vars>>

\* the Ctrl-C handler
SetDone ==
    /\ ProcessAlive /\ ~done
    /\ done' = TRUE
    /\ UNCHANGED <<client_sent, sender_vars, window_vars, thread_vars, server_vars>>

\* ------------------------------------------------ sender loop (main thread)
\* the random client id of this run
CLIENT_ID == 7

\* if state.done.load(SeqCst) { break; }
TxCheck ==
    /\ mpc = "check"
    /\ mpc' = IF done THEN "join" ELSE "send"
    /\ UNCHANGED <<seq, main_result>>
    /\ UNCHANGED <<shared_vars, window_vars, thread_vars, server_vars>>

\* socket.send_to(&buf, addr)?: an error returns from main at once
TxSend(ok) ==
    /\ mpc = "send"
    /\ IF ok THEN mpc' = "add" /\ main_result' = main_result
             ELSE mpc' = "exit" /\ main_result' = "err"
    /\ UNCHANGED seq
    /\ UNCHANGED <<shared_vars, window_vars, thread_vars, server_vars>>

\* the tick with the counter bumped twice
TxAddTwice ==
    /\ mpc = "add"
    /\ client_sent' = client_sent + 2
    /\ seq' = seq + 1
    /\ mpc' = "check"
    /\ UNCHANGED <<done, main_result>>
    /\ UNCHANGED <<window_vars, thread_vars, server_vars>>

\* client_sent.fetch_add(1, SeqCst); sleep; next seq
TxAdd ==
    /\ mpc = "add"
    /\ client_sent' = client_sent + 1
    /\ seq' = seq + 1
    /\ mpc' = "check"
    /\ UNCHANGED <<done, main_result>>
    /\ UNCHANGED <<window_vars, thread_vars, server_vars>>

\* t.join().unwrap()?
TxJoin ==
    /\ mpc = "join" /\ rpc = "exit"
    /\ mpc' = "exit"
    /\ main_result' = thread_result
    /\ UNCHANGED seq
    /\ UNCHANGED <<shared_vars, window_vars, thread_vars, server_vars>>

\* ------------------------------------------------------- server (responder)
\* e.0 with a counter that wraps early
BumpWrap(count) == (count + 1) % 2
\* e.0 += 1
Bump(count) == count + 1

\* the table key read from the sequence field instead of the id field
TableKeySeq(b) == from_be_bytes(b, 1)
\* let client_id = u32::from_be_bytes(buf[5..9])
TableKey(b) == from_be_bytes(b, 5)

\* the sweep taken whenever either condition holds
SweepDueEither(map, now, lc) ==
    Cardinality(DOMAIN map) > TABLE_SWEEP_LEN \/ now - lc > SWEEP_PERIOD_SECS
\* rx_map.len() > 1000 && last_check.elapsed().as_secs() > 1
SweepDue(map, now, lc) ==
    Cardinality(DOMAIN map) > TABLE_SWEEP_LEN /\ now - lc > SWEEP_PERIOD_SECS

\* rx_map.retain(|_, x| x.1.elapsed().as_secs() < 10)
RetainEarly(map, now) ==
    [c \in {x \in DOMAIN map : now - map[x].seen < IDLE_SECS - 1} |-> map[c]]
Retain(map, now) ==
    [c \in {x \in DOMAIN map : now - map[x].seen < IDLE_SECS} |-> map[c]]

\* rx_map.entry(client_id).or_insert_with(|| (0, now)); e.0 += 1; e.1 = now
Record(map, id, now) ==
    LET old == IF id \in DOMAIN map THEN map[id].count ELSE 0
    IN (id :> [count |-> Bump(old), seen |-> now]) @@ map

At(f, c) == IF c \in DOMAIN f THEN f[c] ELSE 0
Put(f, c, v) == (c :> v) @@ f

\* one pass of the server loop over datagram d; the echo it sends, if any,
\* is srv_buf'
SrvRecv(d, sendok) ==
    /\ spc = "recv"
    /\ LET got == recv_into(srv_buf, d)
           now == clock
           due == SweepDue(rx_map, now, last_check)
           kept == IF due THEN Retain(rx_map, now) ELSE rx_map
           client_id == TableKey(got)
           sender == from_be_bytes(got, 5)
           map == Record(kept, client_id, now)
       IN IF recv_n(d) = CLIENT_TO_SERVER_PACKET_SIZE
          THEN /\ last_check' = IF due THEN now ELSE last_check
               /\ rx_map' = map
               /\ srv_buf' = [i \in 1..BUF_SIZE |->
                                IF i = 1 THEN ACK_PACKET_CONST
                                ELSE IF i >= 6 THEN to_be_bytes(map[client_id].count)[i - 5]
                                ELSE got[i]]
               /\ spc' = IF sendok THEN "recv" ELSE "exit"
               /\ nprobes' = Put(nprobes, sender, At(nprobes, sender) + 1)
               /\ base' = [c \in DOMAIN nprobes' |->
                             IF c \in DOMAIN rx_map /\ c \notin DOMAIN kept
                             THEN At(nprobes, c) ELSE At(base, c)]
               /\ echoed' = Put(echoed, sender, map[client_id].count)
          ELSE /\ srv_buf' = got
               /\ UNCHANGED <<rx_map, last_check, spc, nprobes, base, echoed>>
    /\ UNCHANGED <<clock, recv_failed>>
    /\ UNCHANGED <<shared_vars, sender_vars, window_vars, thread_vars>>

\* recv_from: Err(_) falls into `_ => {}`
SrvRecvErr ==
    /\ spc = "recv"
    /\ recv_failed' = TRUE
    /\ UNCHANGED <<rx_map, last_check, srv_buf, clock, spc, nprobes, base, echoed>>
    /\ UNCHANGED <<shared_vars, sender_vars, window_vars, thread_vars>>

\* a second of wall clock passes
SrvTick ==
    /\ spc = "recv" /\ clock < MaxClock
    /\ clock' = clock + 1
    /\ UNCHANGED <<rx_map, last_check, srv_buf, spc, nprobes, base, echoed, recv_failed>>
    /\ UNCHANGED <<shared_vars, sender_vars, window_vars, thread_vars>>

\* --------------------------------------------------------------- init states
ClientInit ==
    /\ client_sent = 0 /\ done = FALSE
    /\ seq = FIRST_SEQ /\ mpc = "check" /\ main_result = "none"
    /\ buf = ZeroBuf /\ n = 0 /\ time_slots = <<>>
    /\ seq_offset = INITIAL_SEQ_OFFSET
    /\ client_received = 0 /\ server_received = 0 /\ last_print = 0
    /\ out = <<>> /\ rv = "none" /\ rpc = "check" /\ thread_result = "none"
    /\ report = NoReport /\ child_waited = FALSE
    /\ credit = <<>>

ServerInit ==
    /\ rx_map = <<>> /\ last_check = 0 /\ srv_buf = ZeroBuf /\ clock = 0
    /\ spc = "recv" /\ nprobes = <<>> /\ base = <<>> /\ echoed = <<>>
    /\ recv_failed = FALSE

NetInit == probes = <<>> /\ echoes = <<>> /\ missing = 0

\* --------------------------------- the receiver fed by an arbitrary network
EchoSeqs == {0, 1, SLOT_SIZE + 1, 3 * SLOT_SIZE + 1, 4 * SLOT_SIZE + 1, FarSeq}
EchoIdxs == {0, 1, PACKETS_PER_SECOND + 2}
LongDatagram == AckPacket(2, 1) \o <<0>>
Injected ==
    {AckPacket(s, i) : s \in EchoSeqs, i \in EchoIdxs}
        \cup {ShortDatagram, LongDatagram, ProbePacket(1, 7)}

RxInject ==
    \E d \in Injected, w \in 0..Len(time_slots) :
        RxDatagram(d, w) /\ UNCHANGED net_vars

RxNext ==
    \/ RxCheck /\ UNCHANGED net_vars
    \/ RxTimeout /\ UNCHANGED net_vars
    \/ RxError /\ UNCHANGED net_vars
    \/ RxInject
    \/ RxFlush /\ UNCHANGED net_vars
    \/ (\E ok \in BOOLEAN : RxWait(ok)) /\ UNCHANGED net_vars
    \/ SetDone /\ UNCHANGED net_vars

Init == ClientInit /\ ServerInit /\ NetInit

Spec == Init /\ [][RxNext]_vars

\* ----------------- end to end: sender, responder and receiver over a FIFO
\* network that delivers everything in order and loses only the echo of
\* `missing`
MissingChoices == {0, 1, SLOT_SIZE, 3 * SLOT_SIZE + 1, 3 * SLOT_SIZE + 2}

E2ESend ==
    /\ seq <= MaxSent /\ Len(probes) < MaxInFlight
    /\ TxSend(TRUE)
    /\ probes' = Append(probes, ProbePacket(seq, CLIENT_ID))
    /\ UNCHANGED <<echoes, missing>>

E2EServe ==
    /\ probes # <<>> /\ Len(echoes) < MaxInFlight
    /\ SrvRecv(Head(probes), TRUE)
    /\ probes' = Tail(probes)
    /\ echoes' = Append(echoes, srv_buf')
    /\ UNCHANGED missing

E2ELose ==
    /\ echoes # <<>> /\ from_be_bytes(Head(echoes), 1) = missing
    /\ echoes' = Tail(echoes)
    /\ UNCHANGED <<probes, missing>>
    /\ UNCHANGED <<shared_vars, sender_vars, window_vars, thread_vars, server_vars>>

E2EDeliver ==
    /\ echoes # <<>> /\ from_be_bytes(Head(echoes), 1) # missing
    /\ RxDatagram(Head(echoes), Len(time_slots))
    /\ echoes' = Tail(echoes)
    /\ UNCHANGED <<probes, missing>>

E2ENext ==
    \/ TxCheck /\ UNCHANGED net_vars
    \/ E2ESend
    \/ TxAdd /\ UNCHANGED net_vars
    \/ E2EServe
    \/ E2ELose
    \/ RxCheck /\ UNCHANGED net_vars
    \/ RxTimeout /\ UNCHANGED net_vars
    \/ E2EDeliver

E2EInit ==
    /\ ClientInit /\ ServerInit
    /\ probes = <<>> /\ echoes = <<>> /\ missing \in MissingChoices

SpecE2E == E2EInit /\ [][E2ENext]_vars

\* ------------------------------- the responder alone, probed by two client
\* ids while a thousand other ids may already be in the table
OTHER_ID == CLIENT_ID + 1
FIRST_IDLE_ID == TABLE_SWEEP_LEN + 1
ProbingIds == {CLIENT_ID, OTHER_ID}
IdleIds == FIRST_IDLE_ID..(FIRST_IDLE_ID + TABLE_SWEEP_LEN - 1)
\* the table after one probe from each idle id at time 0
Crowded == [c \in IdleIds |-> [count |-> 1, seen |-> 0]]

SrvProbe ==
    \E id \in ProbingIds, ok \in BOOLEAN :
        /\ At(nprobes, CLIENT_ID) + At(nprobes, OTHER_ID) < MaxProbes
        /\ SrvRecv(ProbePacket(FIRST_SEQ, id), ok)
        /\ UNCHANGED net_vars

SrvShort == SrvRecv(ShortDatagram, TRUE) /\ UNCHANGED net_vars

\* nine bytes whose kind byte is neither SEQ_NUM_PACKET_CONST nor
\* ACK_PACKET_CONST
WrongKindDatagram ==
    <<SEQ_NUM_PACKET_CONST - 1>> \o to_be_bytes(FIRST_SEQ) \o to_be_bytes(CLIENT_ID)

SrvNext ==
    \/ SrvProbe
    \/ SrvShort
    \/ SrvTick /\ UNCHANGED net_vars

SrvInit ==
    /\ ClientInit /\ NetInit
    /\ last_check = 0 /\ srv_buf = ZeroBuf /\ clock = 0 /\ spc = "recv"
    /\ rx_map \in {<<>>, Crowded}
    /\ nprobes = <<>> /\ base = <<>> /\ echoed = <<>> /\ recv_failed = FALSE

SpecServer == SrvInit /\ [][SrvNext]_vars

\* ----------------- the client process: the sender loop on the main thread,
\* the receiver thread and the Ctrl-C handler, over any network
ClientEchoes == {AckPacket(FIRST_SEQ, 1), AckPacket(FarSeq, 1)}

ClientSend == \E ok \in BOOLEAN : seq <= MaxLoop /\ TxSend(ok) /\ UNCHANGED net_vars

ClientRecv ==
    \E d \in ClientEchoes, w \in 0..Len(time_slots) :
        RxDatagram(d, w) /\ UNCHANGED net_vars

ClientNext ==
    \/ TxCheck /\ UNCHANGED net_vars
    \/ ClientSend
    \/ TxAdd /\ UNCHANGED net_vars
    \/ TxJoin /\ UNCHANGED net_vars
    \/ RxCheck /\ UNCHANGED net_vars
    \/ RxTimeout /\ UNCHANGED net_vars
    \/ RxError /\ UNCHANGED net_vars
    \/ ClientRecv
    \/ RxFlush /\ UNCHANGED net_vars
    \/ (\E ok \in BOOLEAN : RxWait(ok)) /\ UNCHANGED net_vars
    \/ SetDone /\ UNCHANGED net_vars

SpecClient == Init /\ [][ClientNext]_vars

\* ----------------- the client process under fair scheduling: each thread
\* keeps taking its next step (recv_from returns within the 50 ms read
\* timeout, send_to and sleep return); the sender stops at its done poll once
\* MaxLoop probes are out
LiveCheck == (done \/ seq <= MaxLoop) /\ TxCheck /\ UNCHANGED net_vars
LiveSend == \E ok \in BOOLEAN : TxSend(ok) /\ UNCHANGED net_vars
SenderStep ==
    \/ LiveCheck
    \/ LiveSend
    \/ TxAdd /\ UNCHANGED net_vars
    \/ TxJoin /\ UNCHANGED net_vars
ReceiverStep ==
    \/ RxCheck /\ UNCHANGED net_vars
    \/ RxTimeout /\ UNCHANGED net_vars
    \/ RxError /\ UNCHANGED net_vars
    \/ ClientRecv
    \/ RxFlush /\ UNCHANGED net_vars
    \/ (\E ok \in BOOLEAN : RxWait(ok)) /\ UNCHANGED net_vars
LiveNext ==
    \/ SenderStep
    \/ ReceiverStep
    \/ SetDone /\ UNCHANGED net_vars

SpecClientFair ==
    Init /\ [][LiveNext]_vars /\ WF_vars(SenderStep) /\ WF_vars(ReceiverStep)

\* ----------------- both roles fed nothing but malformed datagrams: too
\* short, too long (recv_from fills the nine-byte buffer and reports nine), or
\* nine bytes with a kind byte the role does not expect
LongProbe == ProbePacket(FIRST_SEQ, CLIENT_ID) \o <<0>>
MalformedProbes == {ShortDatagram, WrongKindDatagram, LongProbe}
MalformedEchoes ==
    {ShortDatagram, LongDatagram, AckPacket(FarSeq, 1) \o <<0>>,
     ProbePacket(SLOT_SIZE + 1, CLIENT_ID),
     [AckPacket(FIRST_SEQ, 1) EXCEPT ![1] = SEQ_NUM_PACKET_CONST - 1]}

MalServe ==
    \E d \in MalformedProbes :
        /\ At(nprobes, CLIENT_ID) < MaxProbes
        /\ SrvRecv(d, TRUE)
        /\ UNCHANGED net_vars

MalDeliver ==
    \E d \in MalformedEchoes :
        RxDatagram(d, Len(time_slots)) /\ UNCHANGED net_vars

MalNext ==
    \/ MalServe
    \/ SrvRecvErr /\ UNCHANGED net_vars
    \/ RxCheck /\ UNCHANGED net_vars
    \/ RxTimeout /\ UNCHANGED net_vars
    \/ MalDeliver

SpecMalformed == Init /\ [][MalNext]_vars

\* ----------------- the three loops when any send or receive may fail: the
\* sender and the receiver thread of the client, and the server
FailServe ==
    \E id \in ProbingIds, ok \in BOOLEAN :
        /\ At(nprobes, CLIENT_ID) + At(nprobes, OTHER_ID) < MaxProbes
        /\ SrvRecv(ProbePacket(FIRST_SEQ, id), ok)
        /\ UNCHANGED net_vars

FailNext ==
    \/ LiveCheck
    \/ LiveSend
    \/ TxAdd /\ UNCHANGED net_vars
    \/ RxCheck /\ UNCHANGED net_vars
    \/ RxTimeout /\ UNCHANGED net_vars
    \/ RxError /\ UNCHANGED net_vars
    \/ FailServe
    \/ SrvRecvErr /\ UNCHANGED net_vars

SpecFailures == Init /\ [][FailNext]_vars

\* ----------------- the receiver fed echoes whose server index sits on
\* either side of the report threshold, once and a second time
ReportSeqs == {FIRST_SEQ, 3 * SLOT_SIZE + 1, 4 * SLOT_SIZE + 1}
ReportIdxs ==
    {1, PACKETS_PER_SECOND, PACKETS_PER_SECOND + 1,
     2 * PACKETS_PER_SECOND + 1, 2 * PACKETS_PER_SECOND + 2}

ReportFeed ==
    \E s \in ReportSeqs, i \in ReportIdxs, w \in 0..Len(time_slots) :
        RxDatagram(AckPacket(s, i), w) /\ UNCHANGED net_vars

ReportNext ==
    \/ RxCheck /\ UNCHANGED net_vars
    \/ RxTimeout /\ UNCHANGED net_vars
    \/ ReportFeed

SpecReport == Init /\ [][ReportNext]_vars

\* ----------------- prober and responder over a network that loses, reorders
\* and duplicates: probes and echoes are here the sets of datagrams sent so
\* far, any of which may be delivered at any time, any number of times, or
\* never; the responder's table may be crowded, and ten quiet seconds may pass
NetSend ==
    /\ seq <= MaxNetSent
    /\ TxSend(TRUE)
    /\ probes' = probes \cup {ProbePacket(seq, CLIENT_ID)}
    /\ UNCHANGED <<echoes, missing>>

NetServe ==
    \E d \in probes :
        /\ At(nprobes, CLIENT_ID) < MaxNetServed
        /\ SrvRecv(d, TRUE)
        /\ echoes' = echoes \cup {srv_buf'}
        /\ UNCHANGED <<probes, missing>>

NetDeliver ==
    \E d \in echoes :
        RxDatagram(d, Len(time_slots)) /\ UNCHANGED net_vars

NetQuiet ==
    /\ spc = "recv" /\ clock + IDLE_SECS <= MaxClock
    /\ clock' = clock + IDLE_SECS
    /\ UNCHANGED <<rx_map, last_check, srv_buf, spc, nprobes, base, echoed, recv_failed>>
    /\ UNCHANGED <<shared_vars, sender_vars, window_vars, thread_vars, net_vars>>

NetNext ==
    \/ TxCheck /\ UNCHANGED net_vars
    \/ NetSend
    \/ TxAdd /\ UNCHANGED net_vars
    \/ NetServe
    \/ NetQuiet
    \/ RxCheck /\ UNCHANGED net_vars
    \/ RxTimeout /\ UNCHANGED net_vars
    \/ NetDeliver

NetStart ==
    /\ ClientInit
    /\ last_check = 0 /\ srv_buf = ZeroBuf /\ clock = 0 /\ spc = "recv"
    /\ rx_map \in {<<>>, Crowded}
    /\ nprobes = <<>> /\ base = <<>> /\ echoed = <<>> /\ recv_failed = FALSE
    /\ probes = {} /\ echoes = {} /\ missing = 0

SpecNet == NetStart /\ [][NetNext]_vars

\* =================================================================== claims
\* the step just taken is one pass of the receiver loop over a datagram that
\* passed the length and kind guard and whose accounting ran to its end
Observed ==
    /\ rpc = "recv" /\ rpc' = "check"
    /\ n' = SERVER_TO_CLIENT_PACKET_SIZE /\ buf'[1] = ACK_PACKET_CONST
EchoSeq == from_be_bytes(buf, 1)
CreditNext(s) == IF s \in DOMAIN credit' THEN credit'[s] ELSE 0
\* the slots of the old window that the step did not pop
Kept == SubSeq(time_slots, Len(out') - Len(out) + 1, Len(time_slots))
WindowSlots == (LATE_WINDOW + SLOT_SIZE - 1) \div SLOT_SIZE

\* C1: over any sequence of observe calls seq_offset never decreases from one
\* state to the next.
C1_SeqOffsetMonotone == [][seq_offset' >= seq_offset]_vars
C1_Witness == seq_offset > 1 /\ Len(out) >= 2

\* C2: observations of one sequence number while it is not retired raise
\* client_received by exactly one in total (no sequence number is ever
\* counted twice, a live observed one is counted once), and an observation of
\* an already counted live sequence number leaves client_received and the
\* bits of the window as they were.
C2_DuplicateIdempotent ==
    /\ [](\A s \in DOMAIN credit : credit[s] <= 1)
    /\ [][Observed /\ EchoSeq' >= seq_offset' =>
            /\ CreditNext(EchoSeq') = 1
            /\ CreditOf(EchoSeq') = 1 =>
                  /\ client_received' = client_received
                  /\ time_slots' = Kept]_vars
C2_Witness ==
    /\ rpc = "check" /\ n = SERVER_TO_CLIENT_PACKET_SIZE /\ buf[1] = ACK_PACKET_CONST
    /\ EchoSeq >= seq_offset /\ CreditOf(EchoSeq) = 1
    /\ client_received = 1 /\ server_received > 1 /\ seq_offset > 1

\* C3: an echo whose sequence number is below seq_offset (taken after the
\* eviction of the same call) changes neither client_received nor any bit of
\* the window, and no step counts a sequence number below seq_offset.
C3_LateEchoIgnored ==
    /\ [][Observed /\ EchoSeq' < seq_offset' =>
            /\ client_received' = client_received
            /\ time_slots' = Kept]_vars
    /\ [][\A s \in DOMAIN credit' :
            s < seq_offset' => CreditNext(s) = CreditOf(s)]_vars
C3_Witness ==
    /\ rpc = "check" /\ n = SERVER_TO_CLIENT_PACKET_SIZE /\ buf[1] = ACK_PACKET_CONST
    /\ EchoSeq > 0 /\ EchoSeq < seq_offset /\ CreditOf(EchoSeq) = 1

\* C4: after every observe call the window holds at most
\* ceil(LATE_WINDOW / SLOT_SIZE) + 1 slots.
C4_WindowBounded == Len(time_slots) <= WindowSlots + 1

\* C9: the sink holds one byte per retired slot, in retirement order, each
\* the popcount of the slot retired: every step appends to out the popcounts
\* of the slots it pops from the front of the window and moves seq_offset by
\* SLOT_SIZE per byte, so seq_offset = 1 + SLOT_SIZE * Len(out) throughout.
C9_OneBytePerRetiredSlot ==
    /\ [](/\ seq_offset = INITIAL_SEQ_OFFSET + SLOT_SIZE * Len(out)
          /\ \A j \in 1..Len(out) : out[j] \in 0..SLOT_SIZE)
    /\ [][LET k == Len(out') - Len(out)
          IN /\ k >= 0
             /\ SubSeq(out', 1, Len(out)) = out
             /\ \A j \in 1..k : out'[Len(out) + j] = count_ones(time_slots[j])
             /\ seq_offset' = seq_offset + SLOT_SIZE * k
             /\ rpc' = "check" =>
                  /\ Len(time_slots') >= Len(time_slots) - k
                  /\ \A j \in (k + 1)..Len(time_slots) :
                        time_slots[j] \subseteq time_slots'[j - k]]_vars
C9_Witness == Len(out) >= 2 /\ out[1] = 1 /\ out[2] = 0 /\ Len(time_slots) > 0

\* ----------------------------------------------------------- end to end
RECURSIVE SumSeq(_)
SumSeq(s) == IF s = <<>> THEN 0 ELSE Head(s) + SumSeq(Tail(s))
\* probes transmitted so far: sequence numbers FIRST_SEQ..Emitted
Emitted == IF mpc = "add" THEN seq ELSE seq - 1
Drained == probes = <<>> /\ echoes = <<>>
\* the echo of `missing` was lost and the slot of `missing` has retired
OneMissingRetired == missing \in FIRST_SEQ..Emitted /\ missing < seq_offset

\* C5: with every echo delivered in order and none missing, every retired
\* slot has popcount SLOT_SIZE, the retired popcounts sum to the number of
\* retired sequence numbers, and every probe answered has been counted.
C5_InOrderNoLoss ==
    missing = 0 =>
        /\ \A j \in 1..Len(out) : out[j] = SLOT_SIZE
        /\ SumSeq(out) = Len(out) * SLOT_SIZE
        /\ SumSeq(out) = seq_offset - INITIAL_SEQ_OFFSET
        /\ Drained => client_received = Emitted
C5_Witness ==
    missing = 0 /\ Len(out) >= 1 /\ Drained /\ client_received > 3 * SLOT_SIZE

\* C6 as stated: the N probes sent so far are numbered 0..N-1; with the
\* echo of one of them missing and its slot retired, the retired popcounts
\* sum to the number of retired sequence numbers minus one and
\* client_received = N - 1.
C6_FromZero ==
    (OneMissingRetired /\ Drained /\ mpc = "check") =>
        /\ seq - 1 = client_sent - 1
        /\ SumSeq(out) = SLOT_SIZE * Len(out) - 1
        /\ client_received = client_sent - 1

\* C6 amended: the N probes sent so far are numbered 1..N; with the echo of
\* one of them missing and its slot retired, the retired popcounts sum to
\* the number of retired sequence numbers minus one and
\* client_received = N - 1.
C6_OneMissing ==
    (OneMissingRetired /\ Drained /\ mpc = "check") =>
        /\ seq - 1 = client_sent
        /\ SumSeq(out) = SLOT_SIZE * Len(out) - 1
        /\ client_received = client_sent - 1
C6_Witness ==
    /\ OneMissingRetired /\ Drained /\ mpc = "check"
    /\ missing > 1 /\ client_received > 3 * SLOT_SIZE

\* ------------------------------------------------------------- responder
\* the step handled a probe carrying client id c
Handled(c) == At(nprobes', c) = At(nprobes, c) + 1
EchoIdx == from_be_bytes(srv_buf, 5)

\* C7 as stated: the k-th probe carrying client id C is answered with
\* serverReceiptIndex k, whatever arrives in between and however much time
\* passes.
C7_KthProbeIndexK ==
    [][\A c \in ProbingIds : Handled(c) => EchoIdx' = At(nprobes', c)]_vars

\* C7 amended: the k-th probe carrying client id C is answered with k minus
\* the number of probes from C handled before the entry of C was last
\* removed by a sweep (1, 2, 3, ... from the first probe, and from 1 again
\* after a removal); a probe from C changes the entry of no other id that
\* stays in the table.
C7_IndexSinceCreated ==
    [][\A c \in ProbingIds : Handled(c) =>
          /\ EchoIdx' = At(nprobes', c) - At(base', c)
          /\ c \in DOMAIN rx_map' /\ rx_map'[c].count = EchoIdx'
          /\ \A d \in ProbingIds \ {c} :
                d \in DOMAIN rx_map' => rx_map'[d] = rx_map[d]]_vars
C7_Witness ==
    /\ spc = "recv" /\ EchoIdx = 2
    /\ At(nprobes, CLIENT_ID) = 2 /\ At(nprobes, OTHER_ID) = 1
    /\ rx_map[CLIENT_ID].count = 2 /\ rx_map[OTHER_ID].count = 1
    /\ rx_map[OTHER_ID].seen > 0 /\ rx_map[OTHER_ID].seen < rx_map[CLIENT_ID].seen

\* C8 as stated: the index echoed to a client id on successive probes never
\* decreases, sweeps or not.
C8_EchoedNeverDecreases ==
    [][\A c \in DOMAIN echoed : echoed'[c] >= echoed[c]]_vars

\* C8 amended: the count of a client id never decreases while its entry
\* stays in the table, and the entry leaves the table only in a sweep: when
\* the table holds more than 1000 entries, more than one whole second has
\* passed since the last sweep and the entry has been idle for 10 s or more.
C8_CountMonotoneUntilSwept ==
    [][\A c \in DOMAIN rx_map :
          ~(/\ Cardinality(DOMAIN rx_map) > TABLE_SWEEP_LEN
            /\ clock - last_check > SWEEP_PERIOD_SECS
            /\ clock - rx_map[c].seen >= IDLE_SECS)
          => /\ c \in DOMAIN rx_map'
             /\ rx_map'[c].count >= rx_map[c].count
             /\ c \in DOMAIN echoed => echoed'[c] >= echoed[c]]_vars
C8_Witness ==
    /\ last_check > 0 /\ Cardinality(DOMAIN rx_map) < TABLE_SWEEP_LEN
    /\ CLIENT_ID \in DOMAIN rx_map /\ rx_map[CLIENT_ID].count >= 2

\* ---------------------------------------------------------------- shutdown
\* C10: on every shutdown path the receiver thread has flushed the sink and
\* waited for the zstd child before main returns and the process exits.
C10_FlushAndWaitBeforeExit ==
    mpc = "exit" => rpc = "exit" /\ child_waited

\* C11: once the stop flag is set, the sender loop and the receiver loop both
\* eventually leave their loops (the sender to the join, the receiver to its
\* final flush), traffic or no traffic.
SenderLoopLeft == mpc \in {"join", "exit"}
ReceiverLoopLeft == rpc \in {"flush", "wait", "exit"}
C11_StopEndsBothLoops == done ~> (SenderLoopLeft /\ ReceiverLoopLeft)

\* C12: a datagram of the wrong length or with an unrecognized kind byte is
\* discarded by both roles: the responder sends no echo and changes no table
\* entry, the prober changes nothing of its loss accounting, and neither
\* stops. Every datagram of SpecMalformed is malformed, so no step changes any
\* of these.
C12_MalformedDiscarded ==
    [][/\ rx_map' = rx_map /\ echoed' = echoed /\ spc' = "recv"
       /\ UNCHANGED <<time_slots, seq_offset, client_received, server_received>>
       /\ rpc' \in {"check", "recv"}]_vars

\* C13: a send or receive failure other than a receive timeout is fatal to
\* the loop that meets it: the receiver loop of the prober, the sender loop of
\* the prober and the receive/echo loop of the responder each stop with an
\* error.
C13_TransportFailureFatal ==
    [][/\ RxError => rpc' \notin {"check", "recv"} /\ rv' = "err"
       /\ TxSend(FALSE) => mpc' = "exit" /\ main_result' = "err"
       /\ (\E id \in ProbingIds : SrvRecv(ProbePacket(FIRST_SEQ, id), FALSE))
            => spc' = "exit"
       /\ SrvRecvErr => spc' = "exit"]_vars

\* C14: the k-th probe put on the wire carries sequence number k, counting
\* from 1, so sequence numbers strictly increase and are never reused; each
\* tick adds exactly one to the sent counter, which after k ticks equals k.
Transmitted == At(nprobes, CLIENT_ID) + Len(probes)
C14_KthProbeCarriesK ==
    [][/\ Len(probes') > Len(probes) =>
            /\ probes'[Len(probes')] = ProbePacket(seq, CLIENT_ID)
            /\ seq = Transmitted + 1
       /\ (mpc = "add" /\ mpc' # "add") =>
            /\ client_sent' = client_sent + 1
            /\ client_sent' = Transmitted
            /\ seq' = seq + 1
       /\ mpc' # "add" => client_sent' = seq' - 1]_vars
C14_Witness == client_sent >= 3 /\ mpc = "add" /\ probes # <<>> /\ seq = 4

\* C15: an observe call emits a snapshot exactly when the server index, after
\* the maximum with the echo's index is taken, exceeds last_print by more than
\* PACKETS_PER_SECOND; an emission sets last_print to server_received, and
\* nothing else changes last_print; last_print never exceeds server_received,
\* so the subtraction does not underflow.
SnapshotEmitted == report' # report
BitsMatchObserved ==
    \A k \in 1..Len(time_slots) : \A b \in 0..(SLOT_SIZE - 1) :
        b \in time_slots[k] <=> CreditOf(seq_offset + SLOT_SIZE * (k - 1) + b) = 1
SweepRan == last_check' # last_check
EntryRemoved(c) ==
    \/ c \notin DOMAIN rx_map'
    \/ c \in DOMAIN base' /\ At(base', c) # At(base, c)
C17_RemovalOnlyInSweep ==
    [][/\ \A c \in DOMAIN rx_map :
            EntryRemoved(c) => SweepRan /\ clock - rx_map[c].seen >= IDLE_SECS
       /\ SweepRan =>
            /\ Cardinality(DOMAIN rx_map) > TABLE_SWEEP_LEN
            /\ clock - last_check >= SWEEP_PERIOD_SECS
            /\ \A c \in DOMAIN rx_map :
                 clock - rx_map[c].seen < IDLE_SECS => ~EntryRemoved(c)]_vars
C17_Witness ==
    /\ last_check > 0 /\ FIRST_IDLE_ID \notin DOMAIN rx_map
    /\ CLIENT_ID \in DOMAIN rx_map /\ OTHER_ID \in DOMAIN rx_map
    /\ At(base, CLIENT_ID) = 0 /\ rx_map[CLIENT_ID].seen < last_check
    /\ last_check - rx_map[CLIENT_ID].seen = IDLE_SECS - 1

\* C18: whenever the receiver emits a snapshot, the value of the sent counter
\* it reads is non-zero and at least server_received, so the upstream loss of
\* the snapshot is not negative (the responder counts only this prober's
\* probes).
C18_SentCoversServerReceived ==
    report # NoReport => report.sent > 0 /\ report.sent >= report.srv

\* C19: in every reachable state of the receiver, client_received is the sum
\* of the history bytes written so far plus the number of bits set in the
\* slots still in the window.
RECURSIVE BitsSet(_)
BitsSet(slots) ==
    IF slots = <<>> THEN 0 ELSE Cardinality(Head(slots)) + BitsSet(Tail(slots))
ReceiptsConserved == client_received = SumSeq(out) + BitsSet(time_slots)
C20_ReceivedWithinServerReceived == client_received <= server_received
\* C20, as the code has it: the same, as long as no sweep has removed the
\* prober's entry (a recreated entry counts from 1 again while
\* client_received keeps what it had).
C20_WithinUntilSwept ==
    At(base, CLIENT_ID) = 0 => client_received <= server_received
C20_Witness ==
    /\ At(base, CLIENT_ID) = 0 /\ Cardinality(DOMAIN rx_map) > TABLE_SWEEP_LEN
    /\ client_received = 2 /\ server_received = 3 /\ At(nprobes, CLIENT_ID) = 3

====
